---- MODULE Spec2Model ----
(***************************************************************************)
(* Model of src/src/App.tsx (ps2anim): the Tower growth/visibility state   *)
(* machine and its tick timer, the Cube hover handlers and per-frame       *)
(* uniform push, the grid composer, the shader palette, the delayed text   *)
(* label and the fullscreen toggle.                                        *)
(*                                                                         *)
(* Units.  Wall-clock time of the Tower part is counted in steps of 20 ms  *)
(* (the greatest common step of 0.08 s, 1 s and 1.5 s), scale.y is kept as *)
(* an exact numerator over GrowDuration^4, lengths of the scene are in     *)
(* tenths, heights in thousandths.                                         *)
(***************************************************************************)
EXTENDS Integers, Naturals, Sequences, FiniteSets, TLC

VARIABLES
    \* ---- Tower (App.tsx 191-249) ----
    now,          \* Date.now() as last read, in 20 ms steps
    startTime,    \* startTime.current of each Tower
    height,       \* height prop of each Tower (thousandths)
    visible,      \* Tower's visible state
    scaleY,       \* groupRef.current.scale.y, numerator over ScaleOne
    groupRef,     \* groupRef.current is attached (Tower is mounted)
    cubes,        \* Tower's cubes state: sequence of Cube elements
    timers,       \* active setInterval timers of the page
    nextTimer,    \* id the next setInterval call returns
    cb,           \* callback that ran last: [kind, who]
    \* ---- Cube (App.tsx 145-189) ----
    clock,        \* state.clock.elapsedTime handed to the frame callbacks
    materialRef,  \* materialRef.current is attached (Cube is mounted)
    randomValue,  \* randomValue prop of each Cube (hundredths)
    hovered,      \* Cube's hovered state
    material,     \* uniforms of each Cube's CubeMaterial
    cursor,       \* document.body.style.cursor
    pointerOn,    \* the Cube each pointer of the platform is over
    lastPointer,  \* last pointer event delivered to each Cube
    \* ---- Towers, the grid composer (App.tsx 251-296) ----
    gridPc,       \* position of the render of Towers: "idle", "loop", "done"
    gridX,        \* loop variable x
    gridZ,        \* loop variable z
    rng,          \* position of the random source in its stream
    towers,       \* the towers array: sequence of Tower descriptors
    \* ---- customPalette in the fragment shader (App.tsx 62-96) ----
    palT,         \* t, in steps of 1/PhaseSteps
    palMixes,     \* mix statements of customPalette done so far (-1: no call)
    palColor,     \* vec3 color: three fractions <<numerator, denominator>>
    \* ---- App and PS2Text (App.tsx 298-377) ----
    hostNow,         \* time since App was mounted, in steps of 500 ms
    appMounted,      \* App is mounted: the keydown listener is bound
    isFullscreen,    \* App's isFullscreen state
    fullscreenElement, \* document.fullscreenElement is present
    fsRequest,       \* request the platform has not settled: "none", "enter", "exit"
    lastFs,          \* last fullscreen event: "none", "toggle", "granted", "denied", "platform"
    textVisible,     \* PS2Text's visible state
    textTimer,       \* the setTimeout of PS2Text: "pending", "fired", "cleared"
    fontLoaded       \* the font asset has arrived

towerVars == <<now, startTime, height, visible, scaleY, groupRef, cubes,
               timers, nextTimer, cb>>

cubeVars == <<clock, materialRef, randomValue, hovered, material, cursor,
              pointerOn, lastPointer>>

gridVars == <<gridPc, gridX, gridZ, rng, towers>>

palVars == <<palT, palMixes, palColor>>

hostVars == <<hostNow, appMounted, isFullscreen, fullscreenElement, fsRequest,
              lastFs, textVisible, textTimer, fontLoaded>>

vars == <<towerVars, cubeVars, gridVars, palVars, hostVars>>

\* What the callbacks of one component leave alone.
notTower == <<cubeVars, gridVars, palVars, hostVars>>
notCube == <<towerVars, gridVars, palVars, hostVars>>
notGrid == <<towerVars, cubeVars, palVars, hostVars>>
notPal == <<towerVars, cubeVars, gridVars, hostVars>>
notHost == <<towerVars, cubeVars, gridVars, palVars>>

-----------------------------------------------------------------------------
(* Bounds *)
MaxNow == 88
MaxTimers == 3
MaxClock == 2
PhaseSteps == 20
MaxHostNow == 5

-----------------------------------------------------------------------------
(* Tower *)

\* Grid cells <<x, z>> of the Towers that are followed.
TowerIds == {<<0, 1>>, <<1, 2>>}

\* Heights the grid composer hands to a Tower when it renders again
\* (1.0, 1.234); the first render handed 2.5 and 0.5.
HeightSet == {1000, 1234}

\* Steps of Date.now() between two displayed frames: 80 ms, or 1.5 s when
\* the page was in the background.
FrameSteps == {4, 75}

GrowDuration == 75
DelayStep == 4
IntervalPeriod == 50
ScaleOne == GrowDuration * GrowDuration * GrowDuration * GrowDuration

Pow4(n) == n * n * n * n

\* delay prop: (x + z) * 0.08 s
Delay(t) == (t[1] + t[2]) * DelayStep

\* const size = 12; const spacing = 0.8 (tenths)
Size == 12
Spacing == 8

\* position prop: [(x - size/2 + 0.5) * spacing, -2, (z - size/2 + 0.5) * spacing]
Position(t) == <<((2 * t[1] - Size + 1) * Spacing) \div 2, -20,
                 ((2 * t[2] - Size + 1) * Spacing) \div 2>>

\* numCubes = Math.floor(height * 8)
NumCubes(h) == (h * 8) \div 1000

\* The loop written with i <= numCubes.
CubeElementsInclusive(pos, h) ==
    [k \in 1..(NumCubes(h) + 1) |->
        [key |-> k - 1,
         position |-> <<pos[1], pos[2] + (k - 1) * 5, pos[3]>>,
         index |-> k - 1]]

\* The loop of the effect that builds the Cube elements.
CubeElements(pos, h) ==
    [k \in 1..NumCubes(h) |->
        [key |-> k - 1,
         position |-> <<pos[1], pos[2] + (k - 1) * 5, pos[3]>>,
         index |-> k - 1]]

TimersOf(t) == {tm \in timers : tm.owner = t}

\* The frame callback without the elapsedTime > 1.5 return and the clamp.
FrameScaleNoClamp(t, dateNow) ==
    LET elapsedTime == (dateNow - startTime[t]) - Delay(t) IN
    IF ~groupRef[t] THEN scaleY[t]
    ELSE IF elapsedTime < 0 \/ ~visible[t] THEN 0
    ELSE ScaleOne - Pow4(GrowDuration - elapsedTime)

\* The frame callback without the visible test.
FrameScaleIgnoreVisible(t, dateNow) ==
    LET elapsedTime == (dateNow - startTime[t]) - Delay(t) IN
    IF ~groupRef[t] THEN scaleY[t]
    ELSE IF elapsedTime < 0 THEN 0
    ELSE IF elapsedTime > GrowDuration THEN ScaleOne
    ELSE ScaleOne - Pow4(GrowDuration - elapsedTime)

\* The body of the useFrame callback of one Tower: the scale.y it leaves.
FrameScale(t, dateNow) ==
    LET elapsedTime == (dateNow - startTime[t]) - Delay(t) IN
    IF ~groupRef[t] THEN scaleY[t]
    ELSE IF elapsedTime < 0 \/ ~visible[t] THEN 0
    ELSE IF elapsedTime > GrowDuration THEN ScaleOne
    ELSE LET progress == IF elapsedTime < GrowDuration THEN elapsedTime
                         ELSE GrowDuration
         IN ScaleOne - Pow4(GrowDuration - progress)

\* One displayed frame: every Tower's frame callback runs, dt after the last.
Frame(dt) ==
    /\ now + dt <= MaxNow
    /\ \E t \in TowerIds : groupRef[t]
    /\ now' = now + dt
    /\ scaleY' = [t \in TowerIds |-> FrameScale(t, now + dt)]
    /\ cb' = [kind |-> "frame", who |-> <<>>]
    /\ UNCHANGED <<startTime, height, visible, groupRef, cubes, timers, nextTimer>>
    /\ UNCHANGED notTower

\* The interval callback of timer tm; r is Math.random() < 0.1.
Tick(tm, r) ==
    /\ tm \in timers
    /\ visible' = IF r
                  THEN [visible EXCEPT ![tm.owner] = ~visible[tm.owner]]
                  ELSE visible
    /\ cb' = [kind |-> "tick", who |-> tm.owner]
    /\ UNCHANGED <<now, startTime, height, scaleY, groupRef, cubes, timers, nextTimer>>
    /\ UNCHANGED notTower

\* The effect without its cleanup function: the old interval keeps running.
RerenderNoCleanup(t, h) ==
    /\ groupRef[t]
    /\ nextTimer <= MaxTimers
    /\ height' = [height EXCEPT ![t] = h]
    /\ cubes' = [cubes EXCEPT ![t] = CubeElements(Position(t), h)]
    /\ timers' = timers \cup
                    {[id |-> nextTimer, owner |-> t, period |-> IntervalPeriod]}
    /\ nextTimer' = nextTimer + 1
    /\ cb' = [kind |-> "effect", who |-> t]
    /\ UNCHANGED <<now, startTime, visible, scaleY, groupRef>>
    /\ UNCHANGED notTower

\* The parent renders again: new props reach Tower t, the effect's cleanup
\* runs and the effect runs again.
Rerender(t, h) ==
    /\ groupRef[t]
    /\ nextTimer <= MaxTimers
    /\ height' = [height EXCEPT ![t] = h]
    /\ cubes' = [cubes EXCEPT ![t] = CubeElements(Position(t), h)]
    /\ timers' = (timers \ TimersOf(t)) \cup
                    {[id |-> nextTimer, owner |-> t, period |-> IntervalPeriod]}
    /\ nextTimer' = nextTimer + 1
    /\ cb' = [kind |-> "effect", who |-> t]
    /\ UNCHANGED <<now, startTime, visible, scaleY, groupRef>>
    /\ UNCHANGED notTower

\* Tower t is destroyed: the effect's cleanup runs, the ref is detached.
Unmount(t) ==
    /\ groupRef[t]
    /\ timers' = timers \ TimersOf(t)
    /\ groupRef' = [groupRef EXCEPT ![t] = FALSE]
    /\ cb' = [kind |-> "cleanup", who |-> t]
    /\ UNCHANGED <<now, startTime, height, visible, scaleY, cubes, nextTimer>>
    /\ UNCHANGED notTower

TowerInit ==
    /\ now = 0
    /\ startTime = [t \in TowerIds |-> 0]
    /\ height = [t \in TowerIds |-> IF t = <<0, 1>> THEN 2500 ELSE 500]
    /\ visible = [t \in TowerIds |-> TRUE]
    /\ scaleY = [t \in TowerIds |-> ScaleOne]
    /\ groupRef = [t \in TowerIds |-> TRUE]
    /\ cubes = [t \in TowerIds |-> CubeElements(Position(t), height[t])]
    /\ timers = {[id |-> 1, owner |-> <<0, 1>>, period |-> IntervalPeriod],
                 [id |-> 2, owner |-> <<1, 2>>, period |-> IntervalPeriod]}
    /\ nextTimer = 3
    /\ cb = [kind |-> "effect", who |-> <<1, 2>>]

TowerNext ==
    \/ \E dt \in FrameSteps : Frame(dt)
    \/ \E tm \in timers, r \in BOOLEAN : Tick(tm, r)
    \/ \E t \in TowerIds, h \in HeightSet : Rerender(t, h)
    \/ \E t \in TowerIds : Unmount(t)

-----------------------------------------------------------------------------
(* Cube *)

\* Cubes that are followed, named by their index prop in one Tower.
CubeIds == {0, 1}

\* Pointers of the platform (a mouse and a pen or finger).
Pointers == {1, 2}
NoCube == -1

\* Samples of gaussianRandom(0.5, 0.2), in hundredths.
RandomSet == {30, 70}

\* new THREE.Color(0x006FEE)
CubeColor == 28654

\* Defaults of the uniforms of CubeMaterial.
MaterialDefault ==
    [time |-> 0, color |-> CubeColor, index |-> 0, randomValue |-> 0,
     isHovered |-> 0]

\* The frame callback with the hover flag inverted.
CubeUniformsInverted(c, elapsed) ==
    IF materialRef[c]
    THEN [time |-> elapsed, color |-> CubeColor, index |-> c,
          randomValue |-> randomValue[c],
          isHovered |-> IF hovered[c] THEN 0 ELSE 1]
    ELSE material[c]

\* The body of the useFrame callback of one Cube: the uniforms it leaves.
CubeUniforms(c, elapsed) ==
    IF materialRef[c]
    THEN [time |-> elapsed, color |-> CubeColor, index |-> c,
          randomValue |-> randomValue[c],
          isHovered |-> IF hovered[c] THEN 1 ELSE 0]
    ELSE material[c]

\* The Cube element the Tower's effect made is committed: refs attach.
CubeMount(c, rv) ==
    /\ ~materialRef[c]
    /\ materialRef' = [materialRef EXCEPT ![c] = TRUE]
    /\ randomValue' = [randomValue EXCEPT ![c] = rv]
    /\ UNCHANGED <<clock, hovered, material, cursor, pointerOn, lastPointer>>
    /\ UNCHANGED notCube

\* One displayed frame: every Cube's frame callback runs.
CubeFrame(dt) ==
    /\ clock + dt <= MaxClock
    /\ clock' = clock + dt
    /\ material' = [c \in CubeIds |-> CubeUniforms(c, clock + dt)]
    /\ UNCHANGED <<materialRef, randomValue, hovered, cursor, pointerOn, lastPointer>>
    /\ UNCHANGED notCube

\* handlePointerOver counting enters: the flag flips on every enter.
HandlePointerOverFlip(p, c) ==
    /\ materialRef[c]
    /\ pointerOn[p] = NoCube
    /\ pointerOn' = [pointerOn EXCEPT ![p] = c]
    /\ lastPointer' = [lastPointer EXCEPT ![c] = "over"]
    /\ hovered' = [hovered EXCEPT ![c] = ~hovered[c]]
    /\ cursor' = "pointer"
    /\ UNCHANGED <<clock, materialRef, randomValue, material>>
    /\ UNCHANGED notCube

\* handlePointerOver: pointer p enters Cube c.
HandlePointerOver(p, c) ==
    /\ materialRef[c]
    /\ pointerOn[p] = NoCube
    /\ pointerOn' = [pointerOn EXCEPT ![p] = c]
    /\ lastPointer' = [lastPointer EXCEPT ![c] = "over"]
    /\ hovered' = [hovered EXCEPT ![c] = TRUE]
    /\ cursor' = "pointer"
    /\ UNCHANGED <<clock, materialRef, randomValue, material>>
    /\ UNCHANGED notCube

\* handlePointerOut: pointer p leaves the Cube it is over.
HandlePointerOut(p) ==
    /\ pointerOn[p] # NoCube
    /\ pointerOn' = [pointerOn EXCEPT ![p] = NoCube]
    /\ lastPointer' = [lastPointer EXCEPT ![pointerOn[p]] = "out"]
    /\ hovered' = [hovered EXCEPT ![pointerOn[p]] = FALSE]
    /\ cursor' = "auto"
    /\ UNCHANGED <<clock, materialRef, randomValue, material>>
    /\ UNCHANGED notCube

CubeInit ==
    /\ clock = 0
    /\ materialRef = [c \in CubeIds |-> FALSE]
    /\ randomValue = [c \in CubeIds |-> 0]
    /\ hovered = [c \in CubeIds |-> FALSE]
    /\ material = [c \in CubeIds |-> MaterialDefault]
    /\ cursor = ""
    /\ pointerOn = [p \in Pointers |-> NoCube]
    /\ lastPointer = [c \in CubeIds |-> "none"]

CubeNext ==
    \/ \E c \in CubeIds, rv \in RandomSet : CubeMount(c, rv)
    \/ \E dt \in {1} : CubeFrame(dt)
    \/ \E p \in Pointers, c \in CubeIds : HandlePointerOver(p, c)
    \/ \E p \in Pointers : HandlePointerOut(p)

-----------------------------------------------------------------------------
(* Towers: the grid composer *)

\* Standard normal samples z (thousandths) the random source yields in turn;
\* the stream is cyclic and starts anywhere.  -1000000 lies far below what
\* Box-Muller can return.
ZTable == <<0, -1000000, 1500, -8500, 700, -2000, 8500>>

\* gaussianRandom(mean, stdev) at stream position i: z * stdev + mean.
GaussianRandom(i, mean, stdev) ==
    LET z == ZTable[(i % Len(ZTable)) + 1]
        zs == z * stdev
    IN  (IF zs >= 0 THEN zs \div 1000 ELSE -((-zs) \div 1000)) + mean

\* Math.sqrt, rounded down.
Sqrt(n) == CHOOSE r \in 0..1500 : r * r <= n /\ n < (r + 1) * (r + 1)

BaseHeight == 2500
HeightVariation == 1500

\* heightVariation * normalizedDistance of cell (x, z), in thousandths:
\* distanceFromCenter / maxDistance = sqrt(d2 / 4) / (sqrt(2) * size / 2)
\* with d2 = (2x - size + 1)^2 + (2z - size + 1)^2.
DistanceTerm(x, z) ==
    LET d2 == (2 * x - Size + 1) * (2 * x - Size + 1)
              + (2 * z - Size + 1) * (2 * z - Size + 1)
    IN  Sqrt((HeightVariation * HeightVariation * d2) \div (2 * Size * Size))

\* height = baseHeight - heightVariation * normalizedDistance + gaussianRandom(0, 0.3)
RawHeight(x, z, i) == BaseHeight - DistanceTerm(x, z) + GaussianRandom(i, 0, 300)

\* The height prop without the floor.
HeightPropUnclamped(h) == h

\* The height prop: Math.max(0.5, height)
HeightProp(h) == IF h > 500 THEN h ELSE 500

\* The render of Towers starts: the random source stands at position seed.
TowersRender(seed) ==
    /\ gridPc \in {"idle", "done"}
    /\ gridPc' = "loop"
    /\ gridX' = 0
    /\ gridZ' = 0
    /\ rng' = seed
    /\ towers' = <<>>
    /\ UNCHANGED notGrid

\* One pass of the inner loop body: the Tower of cell (x, z) is pushed.
ComposeTower ==
    /\ gridPc = "loop"
    /\ gridX < Size
    /\ towers' = Append(towers,
          [key |-> <<gridX, gridZ>>,
           position |-> Position(<<gridX, gridZ>>),
           delay |-> Delay(<<gridX, gridZ>>),
           height |-> HeightProp(RawHeight(gridX, gridZ, rng)),
           randomValue |-> GaussianRandom(rng + 1, 50, 20)])
    /\ rng' = (rng + 2) % Len(ZTable)
    /\ IF gridZ + 1 < Size
       THEN gridZ' = gridZ + 1 /\ gridX' = gridX
       ELSE gridZ' = 0 /\ gridX' = gridX + 1
    /\ UNCHANGED gridPc
    /\ UNCHANGED notGrid

\* The outer loop ends: Towers returns the group of the towers.
TowersReturn ==
    /\ gridPc = "loop"
    /\ gridX >= Size
    /\ gridPc' = "done"
    /\ UNCHANGED <<gridX, gridZ, rng, towers>>
    /\ UNCHANGED notGrid

GridInit ==
    /\ gridPc = "idle"
    /\ gridX = 0
    /\ gridZ = 0
    /\ rng = 0
    /\ towers = <<>>

GridNext ==
    \/ \E seed \in 0..(Len(ZTable) - 1) : TowersRender(seed)
    \/ ComposeTower
    \/ TowersReturn

-----------------------------------------------------------------------------
(* customPalette *)

\* Fractions are pairs <<numerator, denominator>> in lowest terms; colour
\* channels are counted in twentieths (0.35 = 7, 1.0 = 20).
RECURSIVE Gcd(_, _)
Gcd(a, b) == IF b = 0 THEN a ELSE Gcd(b, a % b)

Abs(a) == IF a < 0 THEN -a ELSE a

Frac(n, d) ==
    LET g == Gcd(Abs(n), d) IN
    IF g = 0 THEN <<0, 1>> ELSE <<n \div g, d \div g>>

\* c0 .. c5
Anchors == << <<7, 0, 0>>, <<10, 0, 2>>, <<14, 2, 4>>,
              <<18, 4, 2>>, <<20, 8, 2>>, <<20, 12, 4>> >>

\* smoothstep(k * 0.2, (k + 1) * 0.2, t) for t = n / PhaseSteps:
\* x = clamp((t - e0) / (e1 - e0), 0, 1); x * x * (3 - 2 * x)
Smoothstep(k, n) ==
    LET raw == 5 * n - k * PhaseSteps
        a == IF raw < 0 THEN 0 ELSE IF raw > PhaseSteps THEN PhaseSteps ELSE raw
    IN  Frac(a * a * (3 * PhaseSteps - 2 * a), PhaseSteps * PhaseSteps * PhaseSteps)

\* mix with the weights exchanged: x * a + y * (1 - a).
MixChannelSwapped(x, y, a) ==
    Frac(x[1] * a[1] + y * x[2] * (a[2] - a[1]), x[2] * a[2])

\* mix(x, y, a) = x * (1 - a) + y * a of one channel; y is an anchor channel.
MixChannel(x, y, a) ==
    Frac(x[1] * (a[2] - a[1]) + y * x[2] * a[1], x[2] * a[2])

Mix(c, anchor, a) == [i \in 1..3 |-> MixChannel(c[i], anchor[i], a)]

\* main of the fragment shader reaches the call:
\* t = mod(randomValue + time * 0.1, 1.0); customPalette(t) starts with c0.
FragmentMain(rv, tm) ==
    /\ palMixes \in {-1, 5}
    /\ palT' = (rv + tm) % PhaseSteps
    /\ palMixes' = 0
    /\ palColor' = [i \in 1..3 |-> <<Anchors[1][i], 1>>]
    /\ UNCHANGED notPal

\* The next mix statement: color = mix(color, c_k, t_(k-1)).
PaletteMix ==
    /\ palMixes \in 0..4
    /\ palColor' = Mix(palColor, Anchors[palMixes + 2], Smoothstep(palMixes, palT))
    /\ palMixes' = palMixes + 1
    /\ UNCHANGED palT
    /\ UNCHANGED notPal

PalInit ==
    /\ palT = 0
    /\ palMixes = -1
    /\ palColor = [i \in 1..3 |-> <<0, 1>>]

PalNext ==
    \/ \E rv \in (-PhaseSteps)..(2 * PhaseSteps), tm \in {0, 7} : FragmentMain(rv, tm)
    \/ PaletteMix

-----------------------------------------------------------------------------
(* App (fullscreen toggle) and PS2Text (delayed label) *)

\* Keys the user presses.
Keys == {"f", "F", "g"}

\* setTimeout(..., 2000), in steps of 500 ms
TextDelay == 4

\* The label is in the scene: PS2Text returned its group instead of null.
LabelRendered == appMounted /\ textVisible

\* toggleFullscreen; the request is settled by the platform later.
ToggleFullscreen ==
    IF ~fullscreenElement
    THEN /\ fsRequest' = "enter"
         /\ isFullscreen' = TRUE
    ELSE /\ fsRequest' = "exit"
         /\ isFullscreen' = FALSE

\* handleKeyPress: a keydown reaches the window while the listener is bound.
HandleKeyPress(key) ==
    /\ appMounted
    /\ IF key = "f" \/ key = "F"
       THEN ToggleFullscreen /\ lastFs' = "toggle"
       ELSE UNCHANGED <<fsRequest, isFullscreen, lastFs>>
    /\ UNCHANGED <<hostNow, appMounted, fullscreenElement, textVisible, textTimer,
                   fontLoaded>>
    /\ UNCHANGED notHost

\* The platform carries out the pending requestFullscreen / exitFullscreen.
PlatformGrant ==
    /\ fsRequest # "none"
    /\ fullscreenElement' = (fsRequest = "enter")
    /\ fsRequest' = "none"
    /\ lastFs' = "granted"
    /\ UNCHANGED <<hostNow, appMounted, isFullscreen, textVisible, textTimer,
                   fontLoaded>>
    /\ UNCHANGED notHost

\* The platform rejects the pending requestFullscreen (the promise the call
\* returns is rejected; the code does not look at it).
PlatformDeny ==
    /\ fsRequest = "enter"
    /\ fsRequest' = "none"
    /\ lastFs' = "denied"
    /\ UNCHANGED <<hostNow, appMounted, isFullscreen, fullscreenElement,
                   textVisible, textTimer, fontLoaded>>
    /\ UNCHANGED notHost

\* The user leaves fullscreen by the platform's own means (Escape).
PlatformExit ==
    /\ fullscreenElement
    /\ fsRequest = "none"
    /\ fullscreenElement' = FALSE
    /\ lastFs' = "platform"
    /\ UNCHANGED <<hostNow, appMounted, isFullscreen, fsRequest, textVisible,
                   textTimer, fontLoaded>>
    /\ UNCHANGED notHost

\* Time passes.
HostAdvance ==
    /\ hostNow < MaxHostNow
    /\ hostNow' = hostNow + 1
    /\ UNCHANGED <<appMounted, isFullscreen, fullscreenElement, fsRequest, lastFs,
                   textVisible, textTimer, fontLoaded>>
    /\ UNCHANGED notHost

\* The timeout callback of PS2Text: setVisible(true).
TextTimerFire ==
    /\ textTimer = "pending"
    /\ hostNow >= TextDelay
    /\ textTimer' = "fired"
    /\ textVisible' = TRUE
    /\ UNCHANGED <<hostNow, appMounted, isFullscreen, fullscreenElement, fsRequest,
                   lastFs, fontLoaded>>
    /\ UNCHANGED notHost

\* The font asset arrives.
FontLoad ==
    /\ ~fontLoaded
    /\ fontLoaded' = TRUE
    /\ UNCHANGED <<hostNow, appMounted, isFullscreen, fullscreenElement, fsRequest,
                   lastFs, textVisible, textTimer>>
    /\ UNCHANGED notHost

\* App is torn down with the timeout of PS2Text left running.
AppUnmountNoClear ==
    /\ appMounted
    /\ appMounted' = FALSE
    /\ UNCHANGED <<hostNow, isFullscreen, fullscreenElement, fsRequest, lastFs,
                   textVisible, textTimer, fontLoaded>>
    /\ UNCHANGED notHost

\* App is torn down: the cleanups of the effects of App and PS2Text run
\* (removeEventListener, clearTimeout).
AppUnmount ==
    /\ appMounted
    /\ appMounted' = FALSE
    /\ textTimer' = IF textTimer = "pending" THEN "cleared" ELSE textTimer
    /\ UNCHANGED <<hostNow, isFullscreen, fullscreenElement, fsRequest, lastFs,
                   textVisible, fontLoaded>>
    /\ UNCHANGED notHost

HostInit ==
    /\ hostNow = 0
    /\ appMounted = TRUE
    /\ isFullscreen = FALSE
    /\ fullscreenElement = FALSE
    /\ fsRequest = "none"
    /\ lastFs = "none"
    /\ textVisible = FALSE
    /\ textTimer = "pending"
    /\ fontLoaded = FALSE

HostNext ==
    \/ \E key \in Keys : HandleKeyPress(key)
    \/ PlatformGrant
    \/ PlatformDeny
    \/ PlatformExit
    \/ HostAdvance
    \/ TextTimerFire
    \/ FontLoad
    \/ AppUnmount

-----------------------------------------------------------------------------
(* Specifications *)

Init == TowerInit /\ CubeInit /\ GridInit /\ PalInit /\ HostInit

SpecTower == Init /\ [][TowerNext]_vars
SpecCube == Init /\ [][CubeNext]_vars
SpecGrid == Init /\ [][GridNext]_vars
SpecPal == Init /\ [][PalNext]_vars
SpecHost == Init /\ [][HostNext]_vars

-----------------------------------------------------------------------------
(* Tower properties *)

\* Elapsed time since mount of Tower t at clock value c.
Elapsed(t, c) == c - startTime[t]

\* A step in which a displayed frame ran.
FrameStep == now' # now

\* C1: on every frame of a mounted Tower whose visible flag is true, scale.y
\* is 0 while elapsed < delay, is 1 - (1 - p)^4 with p = (elapsed - delay)/1.5
\* while delay <= elapsed < delay + 1.5 s, is exactly 1 at elapsed =
\* delay + 1.5 s and on every later frame, and from one frame to the next it
\* never decreases.
C1_GrowthCurve ==
    [][\A t \in TowerIds :
        (FrameStep /\ groupRef[t] /\ visible[t]) =>
            LET e == Elapsed(t, now') IN
            /\ (e < Delay(t)) => scaleY'[t] = 0
            /\ (Delay(t) <= e /\ e < Delay(t) + GrowDuration) =>
                  ScaleOne - scaleY'[t] = Pow4((Delay(t) + GrowDuration) - e)
            /\ (e = Delay(t) + GrowDuration) => scaleY'[t] = ScaleOne
            /\ (e > Delay(t) + GrowDuration) => scaleY'[t] = ScaleOne
            /\ (now > 0) => scaleY'[t] >= scaleY[t]]_vars

C1_Witness ==
    \E t \in TowerIds :
        /\ cb.kind = "frame" /\ groupRef[t] /\ visible[t]
        /\ Elapsed(t, now) = Delay(t) + GrowDuration
        /\ scaleY[t] = ScaleOne

\* C5: a frame of a mounted Tower whose visible flag is false sets scale.y
\* to 0 whatever the growth progress; on the first frame after the flag is
\* true again scale.y is the value of the elapsed time alone (1 from
\* delay + 1.5 s on).
C5_HiddenForcesZero ==
    [][\A t \in TowerIds :
        /\ (FrameStep /\ groupRef[t] /\ ~visible[t]) => scaleY'[t] = 0
        /\ (FrameStep /\ groupRef[t] /\ visible[t]
              /\ scaleY[t] = 0 /\ Elapsed(t, now) > Delay(t)) =>
               LET p == Elapsed(t, now') - Delay(t) IN
               IF p >= GrowDuration THEN scaleY'[t] = ScaleOne
               ELSE scaleY'[t] = ScaleOne - Pow4(GrowDuration - p)]_vars

C5_Witness ==
    \E t \in TowerIds :
        /\ cb.kind = "frame" /\ groupRef[t] /\ ~visible[t]
        /\ Elapsed(t, now) >= Delay(t) + GrowDuration
        /\ scaleY[t] = 0

\* C6: a Tower holds floor(height * 8) Cubes, indexed 0 .. count-1 once each,
\* Cube i lying i * 0.5 above the Tower's base; heights 0.5, 1.0 and 2.5 give
\* 4, 8 and 20 Cubes and no height from 0.5 up gives fewer than 4.
C6_CubeCount ==
    \A t \in TowerIds :
        LET n == Len(cubes[t]) IN
        /\ n * 1000 <= height[t] * 8 /\ height[t] * 8 < (n + 1) * 1000
        /\ {cubes[t][k].index : k \in 1..n} = 0..(n - 1)
        /\ \A k \in 1..n :
              /\ cubes[t][k].key = cubes[t][k].index
              /\ cubes[t][k].position =
                    <<Position(t)[1], Position(t)[2] + cubes[t][k].index * 5,
                      Position(t)[3]>>
        /\ (height[t] = 500) => n = 4
        /\ (height[t] = 1000) => n = 8
        /\ (height[t] = 2500) => n = 20
        /\ (height[t] >= 500) => n >= 4

C6_Witness ==
    /\ cb.kind = "effect"
    /\ \E t \in TowerIds : height[t] = 1000 /\ Len(cubes[t]) = 8
    /\ \E t \in TowerIds : height[t] \in {500, 2500} /\ Len(cubes[t]) \in {4, 20}

\* C8: a Tower never has more than one active tick timer, the timer has the
\* 1 s period and is gone once the Tower is destroyed; a visible flag changes
\* only in a tick callback of its own, live Tower.
C8_TimerLifetime ==
    /\ [](\A t \in TowerIds :
            /\ Cardinality(TimersOf(t)) <= 1
            /\ \A tm \in TimersOf(t) : tm.period = IntervalPeriod
            /\ ~groupRef[t] => TimersOf(t) = {})
    /\ [][\A t \in TowerIds :
            visible'[t] # visible[t] =>
                /\ cb'.kind = "tick" /\ cb'.who = t
                /\ groupRef[t] /\ ~FrameStep]_vars

C8_Witness ==
    /\ cb.kind = "tick"
    /\ nextTimer > 3
    /\ \E t \in TowerIds : ~groupRef[t]
    /\ \E t \in TowerIds : groupRef[t] /\ ~visible[t] /\ cb.who = t

-----------------------------------------------------------------------------
(* Cube properties *)

\* C3: a Cube whose last pointer event is an enter has hovered true however
\* many enters came before it, one whose last pointer event is an exit (or
\* that had none) has hovered false, and every frame pushes isHovered 1 for
\* a hovered Cube and 0 for any other.
C3_HoverIdempotent ==
    /\ [](\A c \in CubeIds : hovered[c] <=> (lastPointer[c] = "over"))
    /\ [][(clock' # clock) =>
            \A c \in CubeIds :
                materialRef[c] =>
                    material'[c].isHovered = (IF hovered[c] THEN 1 ELSE 0)]_vars

C3_Witness ==
    \E c, d \in CubeIds :
        /\ \A p \in Pointers : pointerOn[p] = c
        /\ hovered[c] /\ material[c].isHovered = 1 /\ clock > 0
        /\ lastPointer[d] = "out" /\ ~hovered[d] /\ material[d].isHovered = 0

\* C10: the cursor is 'pointer' exactly when some Cube is hovered.
C10_CursorTracksHover ==
    (cursor = "pointer") <=> (\E c \in CubeIds : hovered[c])

-----------------------------------------------------------------------------
(* Grid composer properties *)

\* C4: a finished render of Towers holds exactly size^2 = 144 descriptors,
\* one for each cell (x, z) with 0 <= x, z < 12, and no descriptor ever
\* carries a height below 0.5, whatever the noise samples were.
C4_GridComplete ==
    /\ \A k \in 1..Len(towers) : towers[k].height >= 500
    /\ gridPc = "done" =>
          /\ Len(towers) = 144
          /\ {towers[k].key : k \in 1..Len(towers)} = (0..11) \X (0..11)

C4_Witness ==
    /\ gridPc = "done"
    /\ \E k \in 1..Len(towers) : towers[k].height = 500
    /\ \E k \in 1..Len(towers) : towers[k].height > 2500

-----------------------------------------------------------------------------
(* Palette properties *)

\* Band of phase n: the k with k * 0.2 <= t < (k + 1) * 0.2.
Band(n) == (5 * n) \div PhaseSteps

MinOf(a, b) == IF a < b THEN a ELSE b
MaxOf(a, b) == IF a > b THEN a ELSE b

\* C7: for every phase t in [0, 1) each channel of the colour customPalette
\* returns lies between the smaller and the larger of that channel of the
\* two anchors that bound the band of t.
C7_PaletteInHull ==
    (palMixes = 5) =>
        /\ palT \in 0..(PhaseSteps - 1)
        /\ \A i \in 1..3 :
              LET lo == Anchors[Band(palT) + 1][i]
                  hi == Anchors[Band(palT) + 2][i]
              IN  /\ MinOf(lo, hi) * palColor[i][2] <= palColor[i][1]
                  /\ palColor[i][1] <= MaxOf(lo, hi) * palColor[i][2]

C7_Witness ==
    /\ palMixes = 5
    /\ (5 * palT) % PhaseSteps # 0
    /\ Band(palT) = 2
    /\ palColor[1][2] > 1

-----------------------------------------------------------------------------
(* App and PS2Text properties *)

\* C2: once the platform has settled a toggle, isFullscreen equals the
\* presence of document.fullscreenElement.
C2_FullscreenTracked ==
    (lastFs \in {"granted", "denied"}) => (isFullscreen = fullscreenElement)

\* C9: the label is not rendered before the 2 s timer has fired, font or no
\* font; once the timer has fired visible is true and it never goes back to
\* false; after a teardown that cleared the pending timer visible is never
\* set.
C9_LabelAfterTimer ==
    /\ [](/\ LabelRendered => (textTimer = "fired" /\ hostNow >= TextDelay)
          /\ (textTimer = "fired") <=> textVisible
          /\ (textTimer = "cleared") => ~appMounted)
    /\ [][/\ textVisible => textVisible'
          /\ (textVisible' # textVisible) => appMounted
          /\ ~appMounted => (textTimer' = textTimer)]_vars

C9_Witness ==
    /\ textTimer = "fired" /\ textVisible /\ fontLoaded
    /\ ~appMounted /\ hostNow > TextDelay

====
